---- MODULE Spec2Model ----
(***************************************************************************)
(* envkey: a file-based secret vault.  One document (.envkey) in the       *)
(* project directory holds a team roster and age-encrypted secrets; each   *)
(* user has an age identity file.  The model covers the four commands      *)
(* (init, set, get, ls), the crypto helpers, the document model and the    *)
(* persistence of the document.                                            *)
(***************************************************************************)
EXTENDS Integers, Sequences, FiniteSets, TLC

\* ------------------------------------------------------------------ bounds
\* Keypairs x25519::Identity::generate() can hand out in one run.
MaxKeypairs == 2
\* The wall clock (Utc::now()) in whole seconds runs over 0..MaxClock.
MaxClock == 1
\* Entries the default environment holds while keys of every shape are set.
MaxEntries == 2

\* ------------------------------------------------------- program constants
FORMAT_VERSION == 1
SecondsPerDay == 86400

Unset == "<unset>"
DefaultEnv == "default"
ENVKEY == ".envkey"
DefaultIdentityPath == "~/.config/envkey/identity.age"
OverrideIdentityPath == "/tmp/identity.age"

\* The process environments an invocation can run under.
ProcEnvs ==
    { [USER |-> "alice", USERNAME |-> Unset, ENVKEY_IDENTITY |-> Unset],
      [USER |-> "alice", USERNAME |-> Unset, ENVKEY_IDENTITY |-> OverrideIdentityPath],
      [USER |-> Unset, USERNAME |-> "bob", ENVKEY_IDENTITY |-> Unset] }

Alice == [USER |-> "alice", USERNAME |-> Unset, ENVKEY_IDENTITY |-> Unset]

Bob == [USER |-> Unset, USERNAME |-> "bob", ENVKEY_IDENTITY |-> Unset]

IdentityPaths == {DefaultIdentityPath, OverrideIdentityPath}
Keypairs == 1..MaxKeypairs
\* age draws a fresh file key for every encryption.
Nonces == {"r1", "r2"}

\* Strings are sequences of Unicode scalar values.
\* Secret keys given on the command line: "A", "_1" and, rejected by
\* validation, "", "1A", "a", "A-".
GoodKeys == { <<65>>, <<95, 49>> }
BadKeys == { <<>>, <<49, 65>>, <<97>>, <<65, 45>> }
KeyArgs == GoodKeys \cup BadKeys
\* "s", "e-acute"
ValueArgs == { <<115>>, <<233>> }
EnvArgs == { DefaultEnv, "production" }

\* The invocations of set: the keys that pass validation under every process
\* environment ("A" with each value and a second file key, "_1" with one
\* value), each key that fails validation, and another environment.
SetArgs ==
    [e : ProcEnvs, env : {DefaultEnv}, key : {<<65>>}, value : ValueArgs, nonce : {"r1"}]
    \cup [e : ProcEnvs, env : {DefaultEnv}, key : {<<65>>}, value : {<<115>>},
          nonce : {"r2"}]
    \cup [e : ProcEnvs, env : {DefaultEnv}, key : {<<95, 49>>}, value : {<<233>>},
          nonce : {"r1"}]
    \cup [e : {Alice}, env : {DefaultEnv}, key : BadKeys, value : {<<115>>},
          nonce : {"r1"}]
    \cup [e : {Alice}, env : {"production"}, key : {<<65>>}, value : {<<115>>},
          nonce : {"r1"}]

\* The invocations of get: the valid keys under every process environment, a
\* key no set can have stored, and another environment.
GetArgs ==
    [e : ProcEnvs, env : {DefaultEnv}, key : GoodKeys]
    \cup [e : {Alice}, env : {DefaultEnv}, key : {<<97>>}]
    \cup [e : {Alice}, env : {"production"}, key : {<<65>>}]

\* ------------------------------------------------------------ small helpers
EmptyMap == [x \in {} |-> x]

Put(m, k, v) == [x \in (DOMAIN m) \cup {k} |-> IF x = k THEN v ELSE m[x]]

Ok(v) == [ok |-> TRUE, val |-> v, msg |-> "", found |-> 0, supported |-> 0]

Fail(m, dflt) == [ok |-> FALSE, val |-> dflt, msg |-> m, found |-> 0, supported |-> 0]

\* ------------------------------------------------------------------ UTF-8
\* str::as_bytes for scalar values below U+0800.
Utf8Char(c) == IF c < 128 THEN <<c>> ELSE <<192 + (c \div 64), 128 + (c % 64)>>

RECURSIVE as_bytes(_)
as_bytes(s) == IF s = <<>> THEN <<>> ELSE Utf8Char(Head(s)) \o as_bytes(Tail(s))

\* String::from_utf8: the decoded string, or an error on an invalid sequence.
RECURSIVE from_utf8(_)
from_utf8(b) ==
    IF b = <<>> THEN Ok(<<>>)
    ELSE IF b[1] < 128
         THEN LET r == from_utf8(Tail(b))
              IN IF r.ok THEN Ok(<<b[1]>> \o r.val) ELSE r
    ELSE IF b[1] >= 194 /\ b[1] <= 223 /\ Len(b) >= 2 /\ b[2] >= 128 /\ b[2] <= 191
         THEN LET r == from_utf8(Tail(Tail(b)))
              IN IF r.ok THEN Ok(<<(b[1] - 192) * 64 + (b[2] - 128)>> \o r.val) ELSE r
    ELSE Fail("decrypted value is not valid UTF-8", <<>>)

\* ----------------------------------------------------------------- crypto
\* An identity is a secret key, a recipient its public key.
to_public(identity) == [pk |-> identity.sk]

\* Recipient::to_string / Recipient::from_str ("age1...").
RecipientToString(r) == <<"age1", r.pk>>

RecipientFromStr(s) ==
    IF s[1] = "age1" /\ s[2] \in Keypairs
    THEN Ok([pk |-> s[2]])
    ELSE Fail("invalid team public key", [pk |-> 0])

\* The age envelope: one stanza per recipient wrapping the file key, and the
\* payload sealed under the file key.
NoEnvelope == [stanzas |-> {}, nonce |-> "r1", payload |-> <<>>, intact |-> FALSE]

\* STANDARD.encode / STANDARD.decode: printable text around the envelope.
Base64Encode(envelope) == [b64 |-> TRUE, data |-> envelope]

Base64Decode(text) ==
    IF text.b64 THEN Ok(text.data) ELSE Fail("ciphertext is not valid base64", NoEnvelope)

\* age::decrypt: the identity opens the stanza made for its public key.

\* A decryption that opens the payload for any identity.
AgeDecrypt_AnyIdentity(identity, envelope) ==
    IF envelope.intact THEN Ok(envelope.payload) ELSE Fail("failed to decrypt value", <<>>)

AgeDecrypt(identity, envelope) ==
    IF envelope.intact /\ to_public(identity) \in envelope.stanzas
    THEN Ok(envelope.payload)
    ELSE Fail("failed to decrypt value", <<>>)


\* An encryption that wraps the file key for one recipient only.
encrypt_value_OneStanza(plaintext, recipients, nonce) ==
    IF recipients = {}
    THEN Fail("cannot encrypt without at least one recipient", Base64Encode(NoEnvelope))
    ELSE Ok(Base64Encode([stanzas |-> {CHOOSE r \in recipients : TRUE}, nonce |-> nonce,
                          payload |-> as_bytes(plaintext), intact |-> TRUE]))

encrypt_value(plaintext, recipients, nonce) ==
    IF recipients = {}
    THEN Fail("cannot encrypt without at least one recipient", Base64Encode(NoEnvelope))
    ELSE Ok(Base64Encode([stanzas |-> recipients, nonce |-> nonce,
                          payload |-> as_bytes(plaintext), intact |-> TRUE]))

\* A decryption that tries the envelope before looking at the encoding.
decrypt_value_DecryptFirst(ciphertext_b64, identity) ==
    LET decrypted == AgeDecrypt(identity, ciphertext_b64.data)
    IN IF ~decrypted.ok THEN decrypted
       ELSE IF ~Base64Decode(ciphertext_b64).ok
       THEN Fail(Base64Decode(ciphertext_b64).msg, <<>>)
       ELSE from_utf8(decrypted.val)

decrypt_value(ciphertext_b64, identity) ==
    LET ciphertext == Base64Decode(ciphertext_b64)
    IN IF ~ciphertext.ok THEN Fail(ciphertext.msg, <<>>)
       ELSE LET decrypted == AgeDecrypt(identity, ciphertext.val)
            IN IF ~decrypted.ok THEN decrypted
               ELSE from_utf8(decrypted.val)

\* --------------------------------------------------------- document model
None == "<none>"

TeamMember(pubkey, role, added) ==
    [pubkey |-> pubkey, role |-> role, added |-> added, environments |-> None]

SecretEntry(value, set_by, modified) ==
    [value |-> value, set_by |-> set_by, modified |-> modified]

EnvkeyFile_new(owner_name, owner_pubkey, date) ==
    [version |-> FORMAT_VERSION,
     team |-> Put(EmptyMap, owner_name, TeamMember(owner_pubkey, "admin", date)),
     environments |-> Put(EmptyMap, DefaultEnv, EmptyMap)]

NoFile == [version |-> 0, team |-> EmptyMap, environments |-> EmptyMap]

ensure_supported_version(file) ==
    IF file.version # FORMAT_VERSION
    THEN [ok |-> FALSE, val |-> file, msg |-> "unsupported .envkey version",
          found |-> file.version, supported |-> FORMAT_VERSION]
    ELSE Ok(file)

\* self.environments.entry("default").or_default(), then insert(key, entry).

\* An insert that keeps the entry a key already has.
default_env_insert_KeepOld(file, key, entry) ==
    LET env == IF DefaultEnv \in DOMAIN file.environments
               THEN file.environments[DefaultEnv] ELSE EmptyMap
    IN [file EXCEPT !.environments =
          Put(@, DefaultEnv, IF key \in DOMAIN env THEN env ELSE Put(env, key, entry))]

default_env_insert(file, key, entry) ==
    LET env == IF DefaultEnv \in DOMAIN file.environments
               THEN file.environments[DefaultEnv] ELSE EmptyMap
    IN [file EXCEPT !.environments = Put(@, DefaultEnv, Put(env, key, entry))]

default_env(file) ==
    IF DefaultEnv \in DOMAIN file.environments
    THEN Ok(file.environments[DefaultEnv])
    ELSE Fail("default environment not found in .envkey", EmptyMap)

\* --------------------------------------------------------------- identity
NoIdentity == [sk |-> 0]

NoBundle == [identity |-> NoIdentity, recipient |-> [pk |-> 0], path |-> ""]

detect_username(e) ==
    IF e.USER # Unset THEN e.USER
    ELSE IF e.USERNAME # Unset THEN e.USERNAME
    ELSE "admin"

identity_path(e) ==
    IF e.ENVKEY_IDENTITY # Unset THEN e.ENVKEY_IDENTITY ELSE DefaultIdentityPath

\* An identity file holds the secret key of one keypair; 0 stands for no file.
identity_exists(ids, path) == ids[path] # 0

load_identity_from(ids, path) ==
    IF ids[path] = 0 THEN Fail("failed to read identity", NoBundle)
    ELSE LET identity == [sk |-> ids[path]]
         IN Ok([identity |-> identity, recipient |-> to_public(identity), path |-> path])

\* Writes a fresh keypair (the next one) over whatever is at path.
generate_identity_at(ids, fresh, path) ==
    LET written == [ids EXCEPT ![path] = fresh]
    IN [bundle |-> load_identity_from(written, path), ids |-> written,
        fresh |-> fresh + 1, generated |-> TRUE]

load_or_generate_identity(ids, fresh, path, force) ==
    IF force \/ ~identity_exists(ids, path)
    THEN generate_identity_at(ids, fresh, path)
    ELSE [bundle |-> load_identity_from(ids, path), ids |-> ids,
          fresh |-> fresh, generated |-> FALSE]

\* ---------------------------------------------------------------- storage
\* The document as text: one chunk per top-level section, in field order.
\* A chunk carries the one section of the file it was serialized from.
NoContent == [exists |-> FALSE, text |-> <<>>]

Chunk(sec, file) ==
    [sec |-> sec, typed |-> TRUE,
     src |-> [version |-> IF sec = "version" THEN file.version ELSE 0,
              team |-> IF sec = "team" THEN file.team ELSE EmptyMap,
              environments |-> IF sec = "environments" THEN file.environments
                               ELSE EmptyMap]]

Serialize(file) ==
    << Chunk("version", file), Chunk("team", file), Chunk("environments", file) >>

HasSection(text, sec) == \E i \in 1..Len(text) : text[i].sec = sec

SectionOf(text, sec) == text[CHOOSE i \in 1..Len(text) : text[i].sec = sec].src

\* Deserialization into EnvkeyFile: version is required, team and environments
\* default to empty maps, every section present must have the field's type.
Parse(text) ==
    IF \/ \E i \in 1..Len(text) :
             text[i].sec \notin {"version", "team", "environments"} \/ ~text[i].typed
       \/ \E i, j \in 1..Len(text) : i # j /\ text[i].sec = text[j].sec
       \/ ~HasSection(text, "version")
    THEN Fail("invalid .envkey YAML", NoFile)
    ELSE Ok([version |-> SectionOf(text, "version").version,
             team |-> IF HasSection(text, "team")
                      THEN SectionOf(text, "team").team ELSE EmptyMap,
             environments |-> IF HasSection(text, "environments")
                              THEN SectionOf(text, "environments").environments
                              ELSE EmptyMap])

read_envkey(content) ==
    IF ~content.exists THEN Fail("missing .envkey", NoFile)
    ELSE LET parsed == Parse(content.text)
         IN IF ~parsed.ok THEN parsed ELSE ensure_supported_version(parsed.val)

\* The temporary file an invocation writes before renaming it over .envkey:
\* in the directory of the document, private to the invocation.
Writers == {"w1", "w2"}


\* A write that goes straight to the document.
TempPath_InPlace(w) == ENVKEY

TempPath(w) == IF w = "w1" THEN ".envkey.w1.tmp" ELSE ".envkey.w2.tmp"

DiskPaths == {ENVKEY} \cup {TempPath(w) : w \in Writers}

CreateTemp(files, w) == [files EXCEPT ![TempPath(w)] = [exists |-> TRUE, text |-> <<>>]]

WriteTempChunk(files, w, file) ==
    LET sofar == files[TempPath(w)].text
    IN [files EXCEPT ![TempPath(w)] =
            [exists |-> TRUE, text |-> Append(sofar, Serialize(file)[Len(sofar) + 1])]]

TempComplete(files, w, file) ==
    files[TempPath(w)].exists /\ Len(files[TempPath(w)].text) >= Len(Serialize(file))

RenameTemp(files, w) ==
    IF TempPath(w) = ENVKEY THEN files
    ELSE [p \in DOMAIN files |->
            IF p = ENVKEY THEN files[TempPath(w)]
            ELSE IF p = TempPath(w) THEN NoContent
            ELSE files[p]]

RECURSIVE WriteTempAll(_, _, _)
WriteTempAll(files, w, file) ==
    IF TempComplete(files, w, file) THEN files
    ELSE WriteTempAll(WriteTempChunk(files, w, file), w, file)

\* An uninterrupted write: temp file created, written in full, renamed.
write_envkey_atomic(files, w, file) ==
    RenameTemp(WriteTempAll(CreateTemp(files, w), w, file), w)

\* ------------------------------------------------------------ cli helpers
\* A check that lets every environment name through.
require_m1_env_Any(env_name) == Ok(env_name)

require_m1_env(env_name) ==
    IF env_name # DefaultEnv
    THEN Fail("M1 supports only default environment", env_name)
    ELSE Ok(env_name)

is_ascii_uppercase(c) == c >= 65 /\ c <= 90

is_ascii_digit(c) == c >= 48 /\ c <= 57

\* A validation that looks at the first character only.
validate_secret_key_FirstOnly(key) ==
    IF key = <<>> THEN Fail("secret key cannot be empty", key)
    ELSE IF ~(key[1] = 95 \/ is_ascii_uppercase(key[1]))
    THEN Fail("invalid secret key: must start with A-Z or _", key)
    ELSE Ok(key)

validate_secret_key(key) ==
    IF key = <<>> THEN Fail("secret key cannot be empty", key)
    ELSE IF ~(key[1] = 95 \/ is_ascii_uppercase(key[1]))
    THEN Fail("invalid secret key: must start with A-Z or _", key)
    ELSE IF ~(\A i \in 2..Len(key) :
                key[i] = 95 \/ is_ascii_uppercase(key[i]) \/ is_ascii_digit(key[i]))
    THEN Fail("invalid secret key: use only A-Z, 0-9, _", key)
    ELSE Ok(key)

\* The recipients of the team, or the error of a public key that does not parse.
parse_recipients_from_team(file) ==
    IF \E n \in DOMAIN file.team : ~RecipientFromStr(file.team[n].pubkey).ok
    THEN Fail("invalid team public key", {})
    ELSE Ok({ RecipientFromStr(file.team[n].pubkey).val : n \in DOMAIN file.team })

now_date(clock) == clock \div SecondsPerDay

\* RFC 3339 with SecondsFormat::Secs: the clock cut to whole seconds.

\* A timestamp that does not follow the clock.
now_timestamp_Stale(clock) == 0

now_timestamp(clock) == clock

\* Byte-wise order of strings.
RECURSIVE StrLess(_, _)
StrLess(a, b) ==
    IF b = <<>> THEN FALSE
    ELSE IF a = <<>> THEN TRUE
    ELSE IF a[1] # b[1] THEN a[1] < b[1]
    ELSE StrLess(Tail(a), Tail(b))

\* rows.sort_by(|a, b| a.1.cmp(&b.1)) over the rows of an environment.
RECURSIVE SortedRows(_, _)
SortedRows(env, keys) ==
    IF keys = {} THEN <<>>
    ELSE LET k == CHOOSE x \in keys : \A y \in keys : y = x \/ StrLess(x, y)
         IN <<[env |-> DefaultEnv, key |-> k, set_by |-> env[k].set_by,
               modified |-> env[k].modified]>> \o SortedRows(env, keys \ {k})

\* --------------------------------------------------------------- outcomes
\* What an invocation reports: exit status, message, and what it printed.
NoOut ==
    [cmd |-> "", ok |-> TRUE, msg |-> "", found |-> 0, supported |-> 0,
     generated |-> FALSE, wrote |-> FALSE, printed |-> <<>>, rows |-> <<>>]

Done(cmd, msg) == [NoOut EXCEPT !.cmd = cmd, !.msg = msg]

Error(cmd, r) ==
    [NoOut EXCEPT !.cmd = cmd, !.ok = FALSE, !.msg = r.msg, !.found = r.found,
                  !.supported = r.supported]

\* ---------------------------------------------------------------- commands
\* Each command is computed from the process environment, its arguments and
\* what it reads; the result says what it writes and what it reports.


\* An init that never refuses --force.
ForceBlocked_Never(force, exists) == FALSE

ForceBlocked(force, exists) == force /\ exists

OnTeam(file, username, bundle) == username \in DOMAIN file.team

InitRun(e, force, content, ids, fresh, clock) ==
    IF ForceBlocked(force, content.exists)
    THEN [ids |-> ids, fresh |-> fresh, write |-> FALSE, file |-> NoFile,
          out |-> Error("init", Fail("--force is blocked when .envkey already exists", 0))]
    ELSE
    LET lg == load_or_generate_identity(ids, fresh, identity_path(e), force)
        bundle == lg.bundle.val
        username == detect_username(e)
        pubkey == RecipientToString(bundle.recipient)
        base == [ids |-> lg.ids, fresh |-> lg.fresh, write |-> FALSE, file |-> NoFile,
                 out |-> NoOut]
        report(o) == [o EXCEPT !.generated = lg.generated]
    IN IF content.exists
       THEN LET rd == read_envkey(content)
            IN IF ~rd.ok
               THEN [base EXCEPT !.out = report(Error("init", rd))]
               ELSE IF ~OnTeam(rd.val, username, bundle)
               THEN [base EXCEPT
                       !.write = TRUE,
                       !.file = [rd.val EXCEPT !.team =
                                   Put(@, username,
                                       TeamMember(pubkey, "admin", now_date(clock)))],
                       !.out = report([Done("init", "Added as admin in existing .envkey")
                                         EXCEPT !.wrote = TRUE])]
               ELSE [base EXCEPT !.out = report(Done("init", ".envkey already exists"))]
       ELSE [base EXCEPT
               !.write = TRUE,
               !.file = EnvkeyFile_new(username, pubkey, now_date(clock)),
               !.out = report([Done("init", "Created .envkey with you as admin")
                                 EXCEPT !.wrote = TRUE])]

\* The post-write self-check of set: decrypt what was just written.
SelfCheck(written, identity) == decrypt_value(written.value, identity)

SetRun(e, env_name, key, value, nonce, content, ids, clock) ==
    LET quiet(r) == [write |-> FALSE, file |-> NoFile, out |-> Error("set", r)]
        rd == read_envkey(content)
        lid == load_identity_from(ids, identity_path(e))
        recipients == parse_recipients_from_team(rd.val)
        encrypted == encrypt_value(value, recipients.val, nonce)
        set_by == detect_username(e)
        file == default_env_insert(rd.val, key,
                    SecretEntry(encrypted.val, set_by, now_timestamp(clock)))
        written == default_env(file).val[key]
        check == SelfCheck(written, lid.val.identity)
    IN IF ~require_m1_env(env_name).ok THEN quiet(require_m1_env(env_name))
       ELSE IF ~validate_secret_key(key).ok THEN quiet(validate_secret_key(key))
       ELSE IF ~content.exists THEN quiet(Fail("missing .envkey", 0))
       ELSE IF ~rd.ok THEN quiet(rd)
       ELSE IF ~lid.ok THEN quiet(lid)
       ELSE IF ~recipients.ok THEN quiet(recipients)
       ELSE IF recipients.val = {} THEN quiet(Fail("no team recipients found in .envkey", 0))
       ELSE IF ~encrypted.ok THEN quiet(encrypted)
       ELSE [write |-> TRUE, file |-> file,
             out |-> IF ~check.ok
                     THEN [Error("set", check) EXCEPT !.wrote = TRUE]
                     ELSE [Done("set", "Encrypted") EXCEPT !.wrote = TRUE]]

GetRun(e, env_name, key, content, ids) ==
    LET rd == read_envkey(content)
        lid == load_identity_from(ids, identity_path(e))
        env == default_env(rd.val)
        plaintext == decrypt_value(env.val[key].value, lid.val.identity)
    IN IF ~require_m1_env(env_name).ok THEN Error("get", require_m1_env(env_name))
       ELSE IF ~content.exists THEN Error("get", Fail("missing .envkey", 0))
       ELSE IF ~rd.ok THEN Error("get", rd)
       ELSE IF ~lid.ok THEN Error("get", lid)
       ELSE IF ~env.ok THEN Error("get", env)
       ELSE IF key \notin DOMAIN env.val THEN Error("get", Fail("secret key not found", 0))
       ELSE IF ~plaintext.ok THEN Error("get", plaintext)
       ELSE [Done("get", "printed") EXCEPT !.printed = plaintext.val]

LsRun(env_name, content) ==
    LET rd == read_envkey(content)
        env == default_env(rd.val)
    IN IF ~require_m1_env(env_name).ok THEN Error("ls", require_m1_env(env_name))
       ELSE IF ~content.exists THEN Error("ls", Fail("missing .envkey", 0))
       ELSE IF ~rd.ok THEN Error("ls", rd)
       ELSE IF ~env.ok THEN Done("ls", "header only")
       ELSE [Done("ls", "listed") EXCEPT !.rows = SortedRows(env.val, DOMAIN env.val)]

\* ------------------------------------------------------------------ state
VARIABLES
    disk,      \* path -> content of the document and of the temporary files
    idfile,    \* identity path -> secret key in the identity file, 0 if none
    nextKey,   \* the next keypair generate() returns
    clock,     \* wall clock, seconds
    out,       \* what the last finished invocation reported
    session,   \* history: the fresh vault and the values set in it since init
    procs,     \* invocations in flight, one per writer
    crypto     \* one encrypt/decrypt exchange: inputs, ciphertext, result

vars == <<disk, idfile, nextKey, clock, out, session, procs, crypto>>

NoSession == [active |-> FALSE, env |-> Alice, last |-> EmptyMap, overwrote |-> FALSE]

Idle == [pc |-> "idle", file |-> NoFile, out |-> NoOut]

NoCrypto ==
    [phase |-> "none", plaintext |-> <<>>, recipients |-> {}, nonce |-> "r1",
     ciphertext |-> Ok(Base64Encode(NoEnvelope)), identity |-> NoIdentity,
     decrypted |-> Ok(<<>>)]

InitVault ==
    /\ disk = [p \in DiskPaths |-> NoContent]
    /\ idfile = [p \in IdentityPaths |-> 0]
    /\ nextKey = 1
    /\ clock = 0
    /\ out = NoOut
    /\ session = NoSession
    /\ procs = [w \in Writers |-> Idle]

Init == InitVault /\ crypto = NoCrypto

\* Invocations run one at a time: the next one starts once the last has exited.
AtPrompt == out = NoOut /\ \A w \in Writers : procs[w] = Idle

cmd_init(e, force) ==
    LET r == InitRun(e, force, disk[ENVKEY], idfile, nextKey, clock)
    IN /\ AtPrompt
       /\ r.fresh <= MaxKeypairs + 1
       /\ idfile' = r.ids
       /\ nextKey' = r.fresh
       /\ disk' = IF r.write THEN write_envkey_atomic(disk, "w1", r.file) ELSE disk
       /\ out' = r.out
       /\ session' = IF r.write
                     THEN IF disk[ENVKEY].exists THEN NoSession
                          ELSE [NoSession EXCEPT !.active = TRUE, !.env = e]
                     ELSE session
       /\ UNCHANGED <<clock, procs, crypto>>

cmd_set(e, env_name, key, value, nonce) ==
    LET r == SetRun(e, env_name, key, value, nonce, disk[ENVKEY], idfile, clock)
    IN /\ AtPrompt
       /\ disk' = IF r.write THEN write_envkey_atomic(disk, "w1", r.file) ELSE disk
       /\ out' = r.out
       /\ session' = IF ~r.write THEN session
                     ELSE IF session.active /\ session.env = e /\ r.out.ok
                     THEN [session EXCEPT
                             !.last = Put(@, key, value),
                             !.overwrote = @ \/ (key \in DOMAIN session.last
                                                 /\ session.last[key] # value)]
                     ELSE NoSession
       /\ UNCHANGED <<idfile, nextKey, clock, procs, crypto>>

cmd_get(e, env_name, key) ==
    /\ AtPrompt
    /\ out' = GetRun(e, env_name, key, disk[ENVKEY], idfile)
    /\ UNCHANGED <<disk, idfile, nextKey, clock, session, procs, crypto>>

cmd_ls(env_name) ==
    /\ AtPrompt
    /\ out' = LsRun(env_name, disk[ENVKEY])
    /\ UNCHANGED <<disk, idfile, nextKey, clock, session, procs, crypto>>

\* ------------------------------------------------------------ environment
\* Documents written from outside the tool (an editor, a test fixture, a
\* newer release): version 2 with empty sections, version 2 with a team
\* section of another shape, and text that is not YAML.
FileV2 == [NoFile EXCEPT !.version = FORMAT_VERSION + 1]

ForeignTexts ==
    { Serialize(FileV2),
      << Chunk("version", FileV2), [Chunk("team", FileV2) EXCEPT !.typed = FALSE],
         Chunk("environments", FileV2) >>,
      << Chunk("garbage", NoFile) >> }

ExternalWrite ==
    /\ AtPrompt
    /\ \E text \in ForeignTexts :
          disk' = [disk EXCEPT ![ENVKEY] = [exists |-> TRUE, text |-> text]]
    /\ session' = NoSession
    /\ UNCHANGED <<idfile, nextKey, clock, out, procs, crypto>>

RemoveEnvkey ==
    /\ AtPrompt
    /\ disk[ENVKEY].exists
    /\ disk' = [disk EXCEPT ![ENVKEY] = NoContent]
    /\ session' = NoSession
    /\ UNCHANGED <<idfile, nextKey, clock, out, procs, crypto>>

Tick ==
    /\ AtPrompt
    /\ clock < MaxClock
    /\ clock' = clock + 1
    /\ UNCHANGED <<disk, idfile, nextKey, out, session, procs, crypto>>

\* The invocation has reported and exits.
Exit ==
    /\ out # NoOut
    /\ out' = NoOut
    /\ UNCHANGED <<disk, idfile, nextKey, clock, session, procs, crypto>>

RunInit == \E e \in ProcEnvs, force \in BOOLEAN : cmd_init(e, force)

RunSet == \E a \in SetArgs : cmd_set(a.e, a.env, a.key, a.value, a.nonce)

RunGet == \E a \in GetArgs : cmd_get(a.e, a.env, a.key)

RunLs == \E env_name \in EnvArgs : cmd_ls(env_name)

\* The commands, with the document also removed or written from outside.
Next == RunInit \/ RunSet \/ RunGet \/ RunLs \/ Exit \/ RemoveEnvkey \/ ExternalWrite

Spec == Init /\ [][Next]_vars

\* The commands that write, on one vault, while the clock runs.
NextClock == RunInit \/ RunSet \/ Exit \/ Tick

SpecClock == Init /\ [][NextClock]_vars

\* ------------------------------------------------- interleaved invocations
\* Two invocations racing on the same document, write_envkey_atomic taken
\* step by step: create the temporary file, write it chunk by chunk, rename
\* it over the document.  An invocation can die at any step.
\* What the racing invocations report is not followed here, only what they
\* leave on disk.
AtomicInitEnvs == {Alice, Bob}

AtomicSetArgs ==
    [e : {Alice}, env : {DefaultEnv}, key : {<<65>>}, value : ValueArgs, nonce : {"r1"}]

Launch(w, r) ==
    /\ procs' = IF r.write
                THEN [procs EXCEPT ![w] = [pc |-> "create", file |-> r.file, out |-> r.out]]
                ELSE procs
    /\ out' = out

BeginInit(w, e) ==
    LET r == InitRun(e, FALSE, disk[ENVKEY], idfile, nextKey, clock)
    IN /\ procs[w].pc = "idle"
       /\ r.fresh <= MaxKeypairs + 1
       /\ idfile' = r.ids
       /\ nextKey' = r.fresh
       /\ Launch(w, r)
       /\ UNCHANGED <<disk, clock, session, crypto>>

BeginSet(w, a) ==
    LET r == SetRun(a.e, a.env, a.key, a.value, a.nonce, disk[ENVKEY], idfile, clock)
    IN /\ procs[w].pc = "idle"
       /\ Launch(w, r)
       /\ UNCHANGED <<disk, idfile, nextKey, clock, session, crypto>>

StepCreate(w) ==
    /\ procs[w].pc = "create"
    /\ disk' = CreateTemp(disk, w)
    /\ procs' = [procs EXCEPT ![w].pc = "write"]
    /\ UNCHANGED <<idfile, nextKey, clock, out, session, crypto>>

StepWrite(w) ==
    /\ procs[w].pc = "write"
    /\ disk' = WriteTempChunk(disk, w, procs[w].file)
    /\ procs' = [procs EXCEPT ![w].pc =
                    IF TempComplete(disk', w, procs[w].file) THEN "rename" ELSE "write"]
    /\ UNCHANGED <<idfile, nextKey, clock, out, session, crypto>>

StepRename(w) ==
    /\ procs[w].pc = "rename"
    /\ disk' = RenameTemp(disk, w)
    /\ procs' = [procs EXCEPT ![w] = Idle]
    /\ UNCHANGED <<idfile, nextKey, clock, out, session, crypto>>

\* The process is killed; what it wrote so far stays on disk.
Crash(w) ==
    /\ procs[w].pc # "idle"
    /\ procs' = [procs EXCEPT ![w] = Idle]
    /\ UNCHANGED <<disk, idfile, nextKey, clock, out, session, crypto>>

RaceInit == \E w \in Writers, e \in AtomicInitEnvs : BeginInit(w, e)

RaceSet == \E w \in Writers, a \in AtomicSetArgs : BeginSet(w, a)

RaceCreate == \E w \in Writers : StepCreate(w)

RaceWrite == \E w \in Writers : StepWrite(w)

RaceRename == \E w \in Writers : StepRename(w)

RaceCrash == \E w \in Writers : Crash(w)

NextAtomic == RaceInit \/ RaceSet \/ RaceCreate \/ RaceWrite \/ RaceRename \/ RaceCrash

SpecAtomic == Init /\ [][NextAtomic]_vars

\* --------------------------------------------------- the crypto functions
\* encrypt_value and decrypt_value on their own: any plaintext, any
\* non-empty set of recipients, any identity.
CryptoPlaintexts == { <<>>, <<115>>, <<233>>, <<115, 233>>, <<233, 233>> }

InitCrypto ==
    /\ InitVault
    /\ \E p \in CryptoPlaintexts, rs \in (SUBSET {[pk |-> k] : k \in Keypairs}) \ {{}},
          n \in Nonces :
          crypto = [NoCrypto EXCEPT !.phase = "input", !.plaintext = p,
                                    !.recipients = rs, !.nonce = n]

Encrypt ==
    /\ crypto.phase = "input"
    /\ crypto' = [crypto EXCEPT
                    !.phase = "encrypted",
                    !.ciphertext = encrypt_value(crypto.plaintext, crypto.recipients,
                                                 crypto.nonce)]
    /\ UNCHANGED <<disk, idfile, nextKey, clock, out, session, procs>>

Decrypt ==
    /\ crypto.phase = "encrypted"
    /\ crypto.ciphertext.ok
    /\ \E k \in Keypairs :
          crypto' = [crypto EXCEPT
                       !.phase = "decrypted",
                       !.identity = [sk |-> k],
                       !.decrypted = decrypt_value(crypto.ciphertext.val, [sk |-> k])]
    /\ UNCHANGED <<disk, idfile, nextKey, clock, out, session, procs>>

NextCrypto == Encrypt \/ Decrypt

SpecCrypto == InitCrypto /\ [][NextCrypto]_vars

\* ------------------------------------------------ decrypt_value on any text
\* decrypt_value on its own, given any stored text and any identity: text that
\* is not base64, envelopes sealed for either, both or none of the keypairs,
\* envelopes damaged after sealing, and payloads sealed by another age client
\* that are or are not UTF-8 (sequences of at most two bytes per character).
PayloadBytes ==
    { <<>>, <<115>>, <<195, 169>>, <<115, 195, 169>>,
      <<233>>, <<195>>, <<195, 40>>, <<128>>, <<192, 128>> }

StoredTexts ==
    [b64 : BOOLEAN,
     data : [stanzas : SUBSET {[pk |-> k] : k \in Keypairs}, nonce : {"r1"},
             payload : PayloadBytes, intact : BOOLEAN]]

InitDecrypt ==
    /\ InitVault
    /\ \E text \in StoredTexts, k \in Keypairs :
          crypto = [NoCrypto EXCEPT !.phase = "text", !.ciphertext = Ok(text),
                                    !.identity = [sk |-> k]]

DecryptText ==
    /\ crypto.phase = "text"
    /\ crypto' = [crypto EXCEPT
                    !.phase = "decrypted",
                    !.decrypted = decrypt_value(crypto.ciphertext.val, crypto.identity)]
    /\ UNCHANGED <<disk, idfile, nextKey, clock, out, session, procs>>

NextDecrypt == DecryptText

SpecDecrypt == InitDecrypt /\ [][NextDecrypt]_vars

\* ----------------------------------------------------- keys of every shape
\* set given keys of every shape on one user's vault.  The keys: the ones the
\* unit test names, every one-character string over A Z _ 0 9, their
\* neighbours in ASCII (@ [ / : ^ `), a, - and e-acute, and the two-character
\* strings that put each of these after A or _ or before A.
DATABASE_URL == <<68, 65, 84, 65, 66, 65, 83, 69, 95, 85, 82, 76>>

TOKEN_1 == <<95, 84, 79, 75, 69, 78, 95, 49>>

database_url == <<100, 97, 116, 97, 98, 97, 115, 101, 95, 117, 114, 108>>

DATABASE1 == <<49, 68, 65, 84, 65, 66, 65, 83, 69>>

API_KEY == <<65, 80, 73, 45, 75, 69, 89>>

KeyChars == {65, 90, 95, 48, 57, 64, 91, 47, 58, 94, 96, 97, 45, 233}

KeySamples ==
    {DATABASE_URL, TOKEN_1, database_url, DATABASE1, API_KEY, <<>>}
    \cup {<<c>> : c \in KeyChars}
    \cup {<<c, d>> : c \in {65, 95}, d \in KeyChars}
    \cup {<<c, 65>> : c \in KeyChars}

set_sample(key) ==
    /\ cmd_set(Alice, DefaultEnv, key, <<115>>, "r1")
    /\ Cardinality(DOMAIN default_env(read_envkey(disk'[ENVKEY]).val).val) <= MaxEntries

KeysInit == cmd_init(Alice, FALSE)

KeysSet == \E key \in KeySamples : set_sample(key)

NextKeys == KeysInit \/ KeysSet \/ Exit

SpecKeys == Init /\ [][NextKeys]_vars

\* ------------------------------------------------------------------ claims
DocText == disk[ENVKEY].text

DocFile == read_envkey(disk[ENVKEY])

DocEnv == default_env(DocFile.val)

TeamKeys(file) == { file.team[n].pubkey : n \in DOMAIN file.team }

IdentityPubkey(ids, path) == RecipientToString(to_public([sk |-> ids[path]]))

Sealed(value) == value.b64 /\ value.data.intact

\* C1: the content at the document path is always a complete document, the
\* serialization of one EnvkeyFile, and it changes only when a rename puts
\* there the whole document a write_envkey_atomic call was given; this with two
\* invocations interleaving step by step and dying at any step.
DocWhole ==
    disk[ENVKEY].exists =>
        /\ Parse(DocText).ok
        /\ DocText = Serialize(Parse(DocText).val)

DocReplacedWhole ==
    disk'[ENVKEY] # disk[ENVKEY] =>
        \E w \in Writers :
            /\ procs[w].pc = "rename"
            /\ disk'[ENVKEY] = [exists |-> TRUE, text |-> Serialize(procs[w].file)]

C1_AtomicWrite == []DocWhole /\ [][DocReplacedWhole]_vars

\* One invocation died between writing its temporary file and the rename,
\* the other is in the middle of writing its own, and a document is in place.
C1_Witness ==
    \E w, v \in Writers :
        /\ w # v
        /\ procs[w].pc = "idle"
        /\ disk[TempPath(w)].exists
        /\ Len(disk[TempPath(w)].text) = 3
        /\ procs[v].pc = "write"
        /\ Len(disk[TempPath(v)].text) \in {1, 2}
        /\ disk[ENVKEY].exists
        /\ DocFile.ok
        /\ DocFile.val # procs[v].file

\* C2: encrypting a plaintext for a non-empty set of recipients succeeds, and
\* decrypting the result with the identity of any of the recipients succeeds
\* and returns exactly the plaintext.
C2_RoundTrip ==
    /\ crypto.phase \in {"encrypted", "decrypted"} => crypto.ciphertext.ok
    /\ (crypto.phase = "decrypted" /\ to_public(crypto.identity) \in crypto.recipients) =>
          /\ crypto.decrypted.ok
          /\ crypto.decrypted.val = crypto.plaintext

\* A two-character plaintext with a non-ASCII character, encrypted for two
\* recipients and decrypted by the second of them.
C2_Witness ==
    /\ crypto.phase = "decrypted"
    /\ crypto.plaintext = <<115, 233>>
    /\ Cardinality(crypto.recipients) >= 2
    /\ crypto.identity = [sk |-> 2]
    /\ to_public(crypto.identity) \in crypto.recipients
    /\ crypto.decrypted.ok

\* C3: in a fresh vault, after any sequence of successful sets run under the
\* process environment that created it, get K under that environment prints
\* exactly the value of the latest set K, for every key set so far; and every
\* entry of the persisted document holds a base64 text of a sealed envelope
\* with at least one stanza, never the value itself.
C3_SetThenGet ==
    session.active =>
        /\ DocFile.ok /\ DocEnv.ok
        /\ DOMAIN DocEnv.val = DOMAIN session.last
        /\ \A k \in DOMAIN session.last :
              LET got == GetRun(session.env, DefaultEnv, k, disk[ENVKEY], idfile)
              IN /\ got.ok
                 /\ got.printed = session.last[k]
                 /\ Sealed(DocEnv.val[k].value)
                 /\ DocEnv.val[k].value.data.stanzas # {}
        /\ (out.cmd = "get" /\ out.ok) => \E k \in DOMAIN session.last :
                                              out.printed = session.last[k]

\* Both keys are set, one of them set again with another value, and a get has
\* just printed the value of "A".
C3_Witness ==
    /\ session.active
    /\ session.overwrote
    /\ DOMAIN session.last = GoodKeys
    /\ out.cmd = "get"
    /\ out.ok
    /\ out.printed = session.last[<<65>>]
    /\ session.last[<<65>>] # session.last[<<95, 49>>]

\* C4: a sealed ciphertext is opened by no identity whose public key is not
\* among its recipients: decrypt_value fails with "failed to decrypt value",
\* and a get run with such an identity fails with that message and prints
\* nothing.
WrongIdentity(identity, value) ==
    /\ Sealed(value)
    /\ to_public(identity) \notin value.data.stanzas

NoDecryptWithoutStanza ==
    (DocFile.ok /\ DocEnv.ok) =>
        \A k \in DOMAIN DocEnv.val, i \in Keypairs :
            WrongIdentity([sk |-> i], DocEnv.val[k].value) =>
                LET r == decrypt_value(DocEnv.val[k].value, [sk |-> i])
                IN ~r.ok /\ r.msg = "failed to decrypt value"

GetWithWrongIdentityFails ==
    \A a \in GetArgs :
        ( /\ cmd_get(a.e, a.env, a.key)
          /\ a.env = DefaultEnv
          /\ DocFile.ok /\ DocEnv.ok
          /\ a.key \in DOMAIN DocEnv.val
          /\ identity_exists(idfile, identity_path(a.e))
          /\ WrongIdentity([sk |-> idfile[identity_path(a.e)]], DocEnv.val[a.key].value) )
        => /\ ~out'.ok
           /\ out'.msg = "failed to decrypt value"
           /\ out'.printed = <<>>

C4_WrongIdentity == []NoDecryptWithoutStanza /\ [][GetWithWrongIdentityFails]_vars

\* A get has just failed to decrypt an entry that is sealed for the other
\* keypair while both identity files exist.
C4_Witness ==
    /\ out.cmd = "get"
    /\ ~out.ok
    /\ out.msg = "failed to decrypt value"
    /\ DocFile.ok /\ DocEnv.ok
    /\ \A p \in IdentityPaths : identity_exists(idfile, p)
    /\ \E k \in DOMAIN DocEnv.val, p \in IdentityPaths :
          WrongIdentity([sk |-> idfile[p]], DocEnv.val[k].value)

\* C5: init without --force, when the document and the identity exist and the
\* identity's public key is on the team, changes neither file, generates
\* nothing and reports ".envkey already exists".
IdentityOnTeam(e) ==
    /\ DocFile.ok
    /\ identity_exists(idfile, identity_path(e))
    /\ IdentityPubkey(idfile, identity_path(e)) \in TeamKeys(DocFile.val)

C5_InitIdempotent ==
    [][ \A e \in ProcEnvs :
          (cmd_init(e, FALSE) /\ IdentityOnTeam(e)) =>
              /\ disk' = disk
              /\ idfile' = idfile
              /\ ~out'.generated
              /\ ~out'.wrote
              /\ out'.msg = ".envkey already exists" ]_vars

\* C6: init on an existing document decides on the identity's public key: a
\* key not on the team is added as an admin entry for the user and the
\* document rewritten, a key on the team leaves the document alone and is
\* reported as such; afterwards the key is on the team, once.
C6_InitByPublicKey ==
    [][ \A e \in ProcEnvs :
          (cmd_init(e, FALSE) /\ DocFile.ok) =>
              LET pubkey == IdentityPubkey(idfile', identity_path(e))
                  team == DocFile.val.team
                  after == read_envkey(disk'[ENVKEY]).val.team
              IN /\ pubkey \notin TeamKeys(DocFile.val) =>
                       /\ out'.wrote
                       /\ after = Put(team, detect_username(e),
                                      TeamMember(pubkey, "admin", now_date(clock)))
                 /\ pubkey \in TeamKeys(DocFile.val) =>
                       /\ disk' = disk
                       /\ out'.msg = ".envkey already exists"
                 /\ out'.ok =>
                       /\ \E n \in DOMAIN after : after[n].pubkey = pubkey
                       /\ \A n, m \in DOMAIN after :
                             after[n].pubkey = after[m].pubkey => n = m ]_vars

\* C7: init --force with a document in place fails and changes no file; an
\* identity file that exists is replaced only by init --force run on its path
\* while there is no document.
ForceRefused ==
    \A e \in ProcEnvs :
        (cmd_init(e, TRUE) /\ disk[ENVKEY].exists) =>
            /\ ~out'.ok
            /\ out'.msg = "--force is blocked when .envkey already exists"
            /\ idfile' = idfile
            /\ disk' = disk

IdentityReplacedOnlyByForce ==
    \A p \in IdentityPaths :
        (identity_exists(idfile, p) /\ idfile'[p] # idfile[p]) =>
            /\ ~disk[ENVKEY].exists
            /\ \E e \in ProcEnvs : identity_path(e) = p /\ cmd_init(e, TRUE)

C7_ForceRefused == [][ForceRefused /\ IdentityReplacedOnlyByForce]_vars

\* init --force has just been refused on a vault that holds a secret.
C7_Witness ==
    /\ out.cmd = "init"
    /\ ~out.ok
    /\ out.msg = "--force is blocked when .envkey already exists"
    /\ DocFile.ok /\ DocEnv.ok
    /\ DocEnv.val # EmptyMap
    /\ \E p \in IdentityPaths : identity_exists(idfile, p)

\* C8: every command that gets as far as reading a document whose version is
\* not the supported one fails with the unsupported-version error naming the
\* version found and the one supported, whatever the other sections hold, and
\* leaves the document as it is.
WrittenVersion == SectionOf(DocText, "version").version

UnsupportedDocument ==
    /\ disk[ENVKEY].exists
    /\ HasSection(DocText, "version")
    /\ WrittenVersion # FORMAT_VERSION

ReadingCommand ==
    \/ \E e \in ProcEnvs : cmd_init(e, FALSE)
    \/ \E a \in SetArgs :
          /\ cmd_set(a.e, a.env, a.key, a.value, a.nonce)
          /\ require_m1_env(a.env).ok
          /\ validate_secret_key(a.key).ok
    \/ \E a \in GetArgs : cmd_get(a.e, a.env, a.key) /\ require_m1_env(a.env).ok
    \/ cmd_ls(DefaultEnv)

C8_VersionGuardFirst ==
    [][ (ReadingCommand /\ UnsupportedDocument) =>
            /\ ~out'.ok
            /\ out'.msg = "unsupported .envkey version"
            /\ out'.found = WrittenVersion
            /\ out'.supported = FORMAT_VERSION
            /\ disk' = disk ]_vars

\* C9 as stated: a successful set of a key that has an entry, with a value
\* other than the one stored, changes the entry's ciphertext and its modified
\* timestamp, however close in time the two sets are.
Resets(a) ==
    /\ cmd_set(a.e, a.env, a.key, a.value, a.nonce)
    /\ out'.ok
    /\ DocFile.ok /\ DocEnv.ok
    /\ a.key \in DOMAIN DocEnv.val
    /\ Sealed(DocEnv.val[a.key].value)
    /\ DocEnv.val[a.key].value.data.payload # as_bytes(a.value)

EntryAfter(key) == default_env(read_envkey(disk'[ENVKEY]).val).val[key]

C9_CiphertextAndTimestampChange ==
    [][ \A a \in SetArgs :
          Resets(a) =>
              /\ EntryAfter(a.key).value # DocEnv.val[a.key].value
              /\ EntryAfter(a.key).modified # DocEnv.val[a.key].modified ]_vars

\* C9, amended: the ciphertext changes, the timestamp becomes the second of
\* the clock at the set, so it changes whenever the stored one is of another
\* second, and the keys of the environment stay as they were.
C9_TimestampOfTheSecond ==
    [][ \A a \in SetArgs :
          Resets(a) =>
              /\ EntryAfter(a.key).value # DocEnv.val[a.key].value
              /\ EntryAfter(a.key).modified = clock
              /\ DocEnv.val[a.key].modified # clock =>
                    EntryAfter(a.key).modified # DocEnv.val[a.key].modified
              /\ DOMAIN default_env(read_envkey(disk'[ENVKEY]).val).val = DOMAIN DocEnv.val
         ]_vars

\* A key set in second 0 has just been set again, with another value, in a
\* later second.
C9_Witness ==
    /\ out.cmd = "set"
    /\ out.ok
    /\ session.active
    /\ session.overwrote
    /\ clock > 0
    /\ DocFile.ok /\ DocEnv.ok
    /\ DOMAIN DocEnv.val = {<<65>>}
    /\ DocEnv.val[<<65>>].modified = clock

\* C10: when the self-check that follows the write in set fails, the error
\* reported is of a kind of its own, not the one get reports when it cannot
\* decrypt.
C10_SelfCheckKind ==
    (out.cmd = "set" /\ out.wrote /\ ~out.ok) => out.msg # "failed to decrypt value"

\* C11: decrypt_value reports one of three failures, each with a message of
\* its own, decided in this order: text that is not base64 is reported as such
\* whatever it holds; an encoded envelope that is damaged or has no stanza for
\* the identity is reported as failing to decrypt; a payload that opens but is
\* the encoding of no string is reported as not valid UTF-8; anything else
\* succeeds with the string the payload encodes.
BadEncoding == "ciphertext is not valid base64"

CannotDecrypt == "failed to decrypt value"

NotValidText == "decrypted value is not valid UTF-8"

\* The characters the payloads can encode, and the strings over them.
TextChars == {40, 115, 233}

Texts == {<<>>} \cup {<<c>> : c \in TextChars} \cup {<<c, d>> : c, d \in TextChars}

IsText(bytes) == \E t \in Texts : as_bytes(t) = bytes

Opens(identity, envelope) ==
    envelope.intact /\ to_public(identity) \in envelope.stanzas

C11_ThreeFailureKinds ==
    /\ BadEncoding # CannotDecrypt
    /\ BadEncoding # NotValidText
    /\ CannotDecrypt # NotValidText
    /\ crypto.phase = "decrypted" =>
          LET text == crypto.ciphertext.val
              r == crypto.decrypted
          IN /\ ~text.b64 => (~r.ok /\ r.msg = BadEncoding)
             /\ (text.b64 /\ ~Opens(crypto.identity, text.data)) =>
                   (~r.ok /\ r.msg = CannotDecrypt)
             /\ (text.b64 /\ Opens(crypto.identity, text.data)
                           /\ ~IsText(text.data.payload)) =>
                   (~r.ok /\ r.msg = NotValidText)
             /\ (text.b64 /\ Opens(crypto.identity, text.data)
                           /\ IsText(text.data.payload)) =>
                   (r.ok /\ as_bytes(r.val) = text.data.payload)

\* decrypt_value has just refused a text that is not base64 although the
\* envelope behind it is intact, sealed for the identity and holds a string.
C11_Witness ==
    /\ crypto.phase = "decrypted"
    /\ ~crypto.ciphertext.val.b64
    /\ Opens(crypto.identity, crypto.ciphertext.val.data)
    /\ crypto.ciphertext.val.data.payload = <<115, 195, 169>>
    /\ ~crypto.decrypted.ok
    /\ crypto.decrypted.msg = BadEncoding

\* C12: set, get and ls given an environment other than "default" fail with
\* the unsupported-environment error whatever the document and the identity
\* file are (missing, unreadable, of another version), and leave both as they
\* were.
UnsupportedEnv == "M1 supports only default environment"

OtherEnvCommand ==
    \/ \E a \in SetArgs :
          a.env # DefaultEnv /\ cmd_set(a.e, a.env, a.key, a.value, a.nonce)
    \/ \E a \in GetArgs : a.env # DefaultEnv /\ cmd_get(a.e, a.env, a.key)
    \/ \E env_name \in EnvArgs : env_name # DefaultEnv /\ cmd_ls(env_name)

C12_NonDefaultEnvRejected ==
    [][ OtherEnvCommand =>
            /\ ~out'.ok
            /\ out'.msg = UnsupportedEnv
            /\ out'.printed = <<>>
            /\ out'.rows = <<>>
            /\ disk' = disk
            /\ idfile' = idfile ]_vars

\* set has just been refused for its environment where the document in place
\* cannot be read, which is the error it would report had it read it.
C12_Witness ==
    /\ out.cmd = "set"
    /\ ~out.ok
    /\ out.msg = UnsupportedEnv
    /\ disk[ENVKEY].exists
    /\ ~DocFile.ok

\* C13: validate_secret_key accepts a key exactly when it matches
\* [A-Z_][A-Z0-9_]* (DATABASE_URL and _TOKEN_1 are accepted; database_url,
\* 1DATABASE and API-KEY are not); set given a key that does not match fails
\* with a validation error and leaves the document as it was, set given a key
\* that matches reports no validation error, and every key of the default
\* environment matches.
FirstChars == (65..90) \cup {95}

LaterChars == FirstChars \cup (48..57)

MatchesPattern(key) ==
    /\ Len(key) >= 1
    /\ key[1] \in FirstChars
    /\ \A i \in 2..Len(key) : key[i] \in LaterChars

KeyErrors ==
    { "secret key cannot be empty", "invalid secret key: must start with A-Z or _",
      "invalid secret key: use only A-Z, 0-9, _" }

AcceptsThePattern ==
    /\ \A key \in KeySamples : validate_secret_key(key).ok <=> MatchesPattern(key)
    /\ \A key \in KeySamples : ~validate_secret_key(key).ok =>
                                    validate_secret_key(key).msg \in KeyErrors
    /\ validate_secret_key(DATABASE_URL).ok
    /\ validate_secret_key(TOKEN_1).ok
    /\ ~validate_secret_key(database_url).ok
    /\ ~validate_secret_key(DATABASE1).ok
    /\ ~validate_secret_key(API_KEY).ok

StoredKeysMatch ==
    (DocFile.ok /\ DocEnv.ok) => \A k \in DOMAIN DocEnv.val : MatchesPattern(k)

SetChecksKey ==
    \A key \in KeySamples :
        cmd_set(Alice, DefaultEnv, key, <<115>>, "r1") =>
            /\ MatchesPattern(key) <=> out'.msg \notin KeyErrors
            /\ ~MatchesPattern(key) => (~out'.ok /\ ~out'.wrote /\ disk' = disk)
            /\ out'.wrote =>
                  key \in DOMAIN default_env(read_envkey(disk'[ENVKEY]).val).val

C13_KeyPattern == [](AcceptsThePattern /\ StoredKeysMatch) /\ [][SetChecksKey]_vars

\* A set has just been refused for a later character of its key on a vault
\* that holds DATABASE_URL.
C13_Witness ==
    /\ out.cmd = "set"
    /\ ~out.ok
    /\ out.msg = "invalid secret key: use only A-Z, 0-9, _"
    /\ DocFile.ok /\ DocEnv.ok
    /\ DOMAIN DocEnv.val = {DATABASE_URL}

\* C14: in the document in place after any sequence of init and set commands,
\* run under any process environments, the set_by of every entry of the
\* default environment is a name of the team roster.
C14_SetByOnTeam ==
    (DocFile.ok /\ DocEnv.ok) =>
        \A k \in DOMAIN DocEnv.val : DocEnv.val[k].set_by \in DOMAIN DocFile.val.team

====
